---- MODULE Spec2Model ----
(***************************************************************************)
(* Model of src/trading_bot.py: BasicBot.setup_symbol_info,                *)
(* BasicBot.get_current_price, BasicBot.place_order and the polling loop   *)
(* BasicBot.trading_bot.                                                   *)
(*                                                                         *)
(* Numbers.  Python floats are modelled as fixed-point integers:           *)
(*   quantities in units of 10^-QtyDigits,                                 *)
(*   prices     in units of 10^-PriceDigits,                               *)
(*   min_notional in whole units of the quote currency,                    *)
(* so a notional (quantity * price) is an integer in units of              *)
(* 10^-(QtyDigits+PriceDigits).  round() and "{:.Nf}".format() round half  *)
(* to even on the decimal value, as the Python documentation states.       *)
(***************************************************************************)
EXTENDS Integers, Sequences, FiniteSets, TLC

VARIABLES
    \* self.* : the cached symbol rules (lines 35-37)
    qty_precision, price_precision, min_notional,
    \* the arguments of trading_bot (line 126)
    buy_threshold, sell_threshold, quantity, order_type,
    \* locals of trading_bot
    in_position, price,
    \* the frame of the running place_order call and its locals
    call, adjusted_qty, current_price, params, order,
    \* control
    pc, stopReason, ticks,
    \* how the call of setup_symbol_info ended
    setupOutcome,
    \* a KeyboardInterrupt has been delivered
    interrupted,
    \* the submissions the exchange accepted, by side, and the submissions that
    \* failed since the last accepted one
    buys, sells, failedSubmits,
    \* observation of the current tick (or direct call): in_position when it
    \* began, the messages logged, the order requests the exchange received
    tickStart, tickLog, submitted

vars == <<qty_precision, price_precision, min_notional,
          buy_threshold, sell_threshold, quantity, order_type,
          in_position, price, call, adjusted_qty, current_price, params, order,
          pc, stopReason, ticks, setupOutcome, interrupted, buys, sells, failedSubmits,
          tickStart, tickLog, submitted>>

----------------------------------------------------------------------------
(* Fixed-point representation *)

RECURSIVE Pow10(_)
Pow10(n) == IF n = 0 THEN 1 ELSE 10 * Pow10(n - 1)

\* decimal digits kept for a quantity and for a price
QtyDigits == 4
PriceDigits == 2

QtyScale == Pow10(QtyDigits)
PriceScale == Pow10(PriceDigits)
NotionalScale == QtyScale * PriceScale

\* Python's None, and a value that is not None
None == <<>>
Some(v) == <<v>>
\* Python truthiness of an optional float: None and 0.0 are falsy
Truthy(v) == v # None /\ v[1] # 0

\* the rounded quotient returned without scaling it back by m
RoundHalfEvenUnscaled(x, m) ==
    LET q == x \div m
        r == x - q * m
    IN  IF 2 * r < m THEN q
        ELSE IF 2 * r > m THEN q + 1
        ELSE IF q % 2 = 0 THEN q ELSE q + 1

\* x rounded to the nearest multiple of m, ties to the even multiple
RoundHalfEven(x, m) ==
    LET lo == (x \div m) * m
        r  == x - lo
    IN  IF 2 * r < m THEN lo
        ELSE IF 2 * r > m THEN lo + m
        ELSE IF (lo \div m) % 2 = 0 THEN lo ELSE lo + m

\* round(quantity, ndigits), line 81
Round(q, ndigits) ==
    IF ndigits >= QtyDigits THEN q
    ELSE RoundHalfEven(q, Pow10(QtyDigits - ndigits))

DigitChar(d) == <<"0", "1", "2", "3", "4", "5", "6", "7", "8", "9">>[d + 1]

\* the decimal digits of a natural number, most significant first
RECURSIVE Digits(_)
Digits(n) == IF n < 10 THEN <<DigitChar(n)>>
             ELSE Append(Digits(n \div 10), DigitChar(n % 10))

\* the last k decimal digits of n, zero padded
RECURSIVE FracDigits(_, _)
FracDigits(n, k) == IF k = 0 THEN <<>>
                    ELSE Append(FracDigits(n \div 10, k - 1), DigitChar(n % 10))

\* "{:.{}f}".format(price, precision), line 109, for a price >= 0:
\* the string as a sequence of characters
FormatPrice(p, precision) ==
    LET v == IF precision >= PriceDigits
             THEN p * Pow10(precision - PriceDigits)
             ELSE RoundHalfEven(p, Pow10(PriceDigits - precision))
                      \div Pow10(PriceDigits - precision)
        whole == v \div Pow10(precision)
        frac  == v % Pow10(precision)
    IN  IF precision = 0 THEN Digits(whole)
        ELSE Digits(whole) \o <<".">> \o FracDigits(frac, precision)

----------------------------------------------------------------------------
(* Inputs: the bounded sets the environment draws from *)

\* number of loop iterations followed
MaxTicks == 3

Symbol == "BTCUSDT"

\* prices the ticker may report (40.00, 60.25, 70.00)
MarketPrices == {4000, 6025, 7000}
\* --buy-threshold, --sell-threshold, --quantity, --order-type
BuyThresholds == {5000, 6025}
SellThresholds == {6025, 7000}
\* 0, 0.0012, 0.1004, 1.5
Quantities == {0, 12, 1004, 15000}
OrderTypes == {"MARKET", "LIMIT"}
Sides == {"BUY", "SELL"}
\* price arguments of a direct place_order call
PriceArgs == {None, Some(0), Some(4000), Some(6025), Some(7000)}

\* how a call of the exchange client can fail: BinanceAPIException, or any
\* other exception
Failures == {"BinanceAPIException", "Exception"}

MinNotionalFilter(n) == [filterType |-> "MIN_NOTIONAL", notional |-> n]
PriceFilter == [filterType |-> "PRICE_FILTER"]
SymbolInfo(sym, qp, pp, fs) ==
    [symbol |-> sym, quantityPrecision |-> qp, pricePrecision |-> pp, filters |-> fs]

\* replies of futures_exchange_info: info['symbols']
ExchangeInfos ==
    { <<>>,
      << SymbolInfo("ETHUSDT", 1, 1, <<MinNotionalFilter(100)>>) >>,
      << SymbolInfo("ETHUSDT", 2, 2, <<>>),
         SymbolInfo(Symbol, 1, 1, <<PriceFilter, MinNotionalFilter(100)>>) >>,
      << SymbolInfo(Symbol, 0, 0, <<PriceFilter>>) >>,
      << SymbolInfo(Symbol, 3, 1, <<MinNotionalFilter(100), MinNotionalFilter(5)>>),
         SymbolInfo(Symbol, 0, 0, <<>>) >> }

----------------------------------------------------------------------------
(* BasicBot.__init__ : the default rules *)

DefaultQtyPrecision == 3
DefaultPricePrecision == 2
DefaultMinNotional == 5

Rules(qp, pp, mn) == [qty_precision |-> qp, price_precision |-> pp, min_notional |-> mn]
DefaultRules == Rules(DefaultQtyPrecision, DefaultPricePrecision, DefaultMinNotional)

----------------------------------------------------------------------------
(* BasicBot.setup_symbol_info *)

\* lines 49-51: the last MIN_NOTIONAL filter of the list sets min_notional
RECURSIVE ScanFilters(_, _, _)
ScanFilters(fs, i, mn) ==
    IF i > Len(fs) THEN mn
    ELSE ScanFilters(fs, i + 1,
                     IF fs[i].filterType = "MIN_NOTIONAL" THEN fs[i].notional ELSE mn)

\* lines 43-54: the first entry of the symbol sets the rules and returns
RECURSIVE ScanSymbols(_, _, _, _)
ScanSymbols(symbols, i, sym, rules) ==
    IF i > Len(symbols) THEN rules
    ELSE IF symbols[i].symbol = sym
         THEN Rules(symbols[i].quantityPrecision, symbols[i].pricePrecision,
                    ScanFilters(symbols[i].filters, 1, rules.min_notional))
         ELSE ScanSymbols(symbols, i + 1, sym, rules)

CurrentRules == Rules(qty_precision, price_precision, min_notional)

\* the handlers of setup_symbol_info (line 55): the exceptions it swallows
SetupCatches == {"BinanceAPIException"}

\* setup_symbol_info with the reply `info`: the rules and control go on at `next`
SetupReply(info, next) ==
    LET r == ScanSymbols(info, 1, Symbol, CurrentRules)
    IN  /\ qty_precision' = r.qty_precision
        /\ price_precision' = r.price_precision
        /\ min_notional' = r.min_notional
        /\ pc' = next
        /\ setupOutcome' = IF \E i \in DOMAIN info : info[i].symbol = Symbol
                           THEN "found" ELSE "absent"
        /\ UNCHANGED stopReason

\* setup_symbol_info when futures_exchange_info raises `f`
SetupFailure(f, next) ==
    /\ UNCHANGED <<qty_precision, price_precision, min_notional>>
    /\ setupOutcome' = f
    /\ IF f \in SetupCatches
       THEN pc' = next /\ UNCHANGED stopReason
       ELSE pc' = "crashed" /\ stopReason' = "MetadataFetchFailed"

\* line 129 and line 131
SetupSymbolInfo ==
    /\ pc = "setup"
    /\ \/ \E info \in ExchangeInfos : SetupReply(info, "poll")
       \/ \E f \in Failures : SetupFailure(f, "poll")
    /\ in_position' = FALSE
    /\ UNCHANGED <<buy_threshold, sell_threshold, quantity, order_type, price,
                   call, adjusted_qty, current_price, params, order, ticks,
                   interrupted, buys, sells, failedSubmits,
                   tickStart, tickLog, submitted>>

----------------------------------------------------------------------------
(* BasicBot.place_order *)

NoCall == [side |-> "NONE", quantity |-> 0, order_type |-> "NONE", price |-> None,
           caller |-> "NONE"]

\* line 89
Notional(adj, p, cur) == adj * (IF Truthy(p) THEN p[1] ELSE cur)

\* the price fields added whenever a price is given, whatever the order type
BuildParamsPriceAlways(side, type, adj, p) ==
    IF p = None
    THEN IF type = "LIMIT" THEN None
         ELSE Some([symbol |-> Symbol, side |-> side, type |-> type, quantity |-> adj])
    ELSE Some([symbol |-> Symbol, side |-> side, type |-> type, quantity |-> adj,
               price |-> FormatPrice(p[1], price_precision),
               timeInForce |-> "GTC"])

\* the check of lines 105-107 left out: a LIMIT order without a price is built
BuildParamsNoPriceCheck(side, type, adj, p) ==
    IF type = "LIMIT" /\ p # None
    THEN Some([symbol |-> Symbol, side |-> side, type |-> type, quantity |-> adj,
               price |-> FormatPrice(p[1], price_precision),
               timeInForce |-> "GTC"])
    ELSE Some([symbol |-> Symbol, side |-> side, type |-> type, quantity |-> adj])

\* lines 96-110: the request, None when a LIMIT order has no price
BuildParams(side, type, adj, p) ==
    LET base == [symbol |-> Symbol, side |-> side, type |-> type, quantity |-> adj]
    IN  IF type = "LIMIT"
        THEN IF p = None THEN None
             ELSE Some([symbol |-> Symbol, side |-> side, type |-> type, quantity |-> adj,
                        price |-> FormatPrice(p[1], price_precision),
                        timeInForce |-> "GTC"])
        ELSE Some(base)

\* the position taken as filled whatever place_order returned
NextPositionOptimistic(side, ord, pos) == side = "BUY"

\* lines 144-145 and 151-152
NextPosition(side, ord, pos) == IF ord # None THEN side = "BUY" ELSE pos

\* the handler of lines 122-124 left out
PlaceOrderCatchesApiOnly == {"BinanceAPIException"}
\* a bare `except:` in place of `except Exception` (line 122)
PlaceOrderCatchesAll == {"BinanceAPIException", "Exception", "KeyboardInterrupt"}

\* the exceptions place_order swallows (lines 119-124); a KeyboardInterrupt is
\* no Exception
PlaceOrderCatches == {"BinanceAPIException", "Exception"}

\* the exceptions the try block of trading_bot handles (line 156)
LoopCatches == {"KeyboardInterrupt"}

\* `if` in place of the `elif` of line 147: after a BUY that set in_position
\* the sell branch is evaluated in the same tick
ReturnFallThrough(caller, side, ord, logs) ==
    /\ order' = ord
    /\ tickLog' = tickLog \o logs
    /\ IF caller = "trading_bot"
       THEN /\ in_position' = (IF ord # None THEN side = "BUY" ELSE in_position)
            /\ pc' = IF side = "BUY" /\ ord # None THEN "decide" ELSE "sleep"
       ELSE /\ UNCHANGED in_position
            /\ pc' = "idle"
    /\ UNCHANGED stopReason

\* place_order returns `ord` to its caller, having logged `logs`
Return(caller, side, ord, logs) ==
    /\ order' = ord
    /\ tickLog' = tickLog \o logs
    /\ IF caller = "trading_bot"
       THEN /\ in_position' = NextPosition(side, ord, in_position)
            /\ pc' = "sleep"
       ELSE /\ UNCHANGED in_position
            /\ pc' = "idle"
    /\ UNCHANGED stopReason

\* the rejection logged and the return left out: control falls through
RejectNoReturn(caller, side, reason) ==
    /\ tickLog' = Append(tickLog, reason)
    /\ order' = None
    /\ pc' = "submit"
    /\ UNCHANGED <<in_position, stopReason>>

\* lines 85-86, 92-93, 106-107: a rejection is logged and None is returned
Reject(caller, side, reason) == Return(caller, side, None, <<reason>>)

\* an exception `f` raised inside place_order's try block
Raise(caller, side, f, logs) ==
    IF f \in PlaceOrderCatches
    THEN Return(caller, side, None,
                logs \o <<IF f = "BinanceAPIException" THEN "ApiError" ELSE "GeneralError">>)
    ELSE /\ order' = None
         /\ tickLog' = tickLog \o logs
         /\ UNCHANGED in_position
         /\ pc' = IF f \in LoopCatches THEN "stopped" ELSE "crashed"
         /\ stopReason' = IF f = "KeyboardInterrupt" THEN "Interrupt" ELSE "OrderFailed"

\* the check of line 84 written `adjusted_qty < 0`
EnterPlaceOrderZeroPasses(caller, side, qty, type, p) ==
    LET adj == Round(qty, qty_precision)
    IN  /\ call' = [side |-> side, quantity |-> qty, order_type |-> type, price |-> p,
                    caller |-> caller]
        /\ adjusted_qty' = adj
        /\ IF adj < 0
           THEN Reject(caller, side, "ZeroQuantity")
           ELSE /\ pc' = "fetch_price"
                /\ order' = None
                /\ UNCHANGED <<in_position, tickLog, stopReason>>

\* lines 77-86: entry, rounding, the quantity check
EnterPlaceOrder(caller, side, qty, type, p) ==
    LET adj == Round(qty, qty_precision)
    IN  /\ call' = [side |-> side, quantity |-> qty, order_type |-> type, price |-> p,
                    caller |-> caller]
        /\ adjusted_qty' = adj
        /\ IF adj <= 0
           THEN Reject(caller, side, "ZeroQuantity")
           ELSE /\ pc' = "fetch_price"
                /\ order' = None
                /\ UNCHANGED <<in_position, tickLog, stopReason>>

\* get_current_price, lines 62-64: a BinanceAPIException is logged, then raised
\* again; any other exception passes unlogged
FetchErrorLog(f) == IF f = "BinanceAPIException" THEN <<"PriceFetchError">> ELSE <<>>

\* lines 88-112: the price fetch, the notional check, the request
FetchOrderPrice ==
    /\ pc = "fetch_price"
    /\ \/ \E cur \in MarketPrices :
            LET req == BuildParams(call.side, call.order_type, adjusted_qty, call.price)
            IN  /\ current_price' = cur
                /\ IF Notional(adjusted_qty, call.price, cur) < min_notional * NotionalScale
                   THEN /\ Reject(call.caller, call.side, "BelowMinNotional")
                        /\ UNCHANGED params
                   ELSE IF req = None
                   THEN /\ Reject(call.caller, call.side, "MissingLimitPrice")
                        /\ UNCHANGED params
                   ELSE /\ params' = req[1]
                        /\ pc' = "submit"
                        /\ tickLog' = Append(tickLog, "PlacingOrder")
                        /\ UNCHANGED <<order, in_position, stopReason>>
       \/ \E f \in Failures :
            /\ Raise(call.caller, call.side, f, FetchErrorLog(f))
            /\ UNCHANGED <<current_price, params>>
    /\ UNCHANGED <<qty_precision, price_precision, min_notional,
                   buy_threshold, sell_threshold, quantity, order_type, price,
                   call, adjusted_qty, ticks, setupOutcome,
                   interrupted, buys, sells, failedSubmits, tickStart, submitted>>

\* lines 115-124: the exchange receives the request and answers
SubmitOrder ==
    /\ pc = "submit"
    /\ submitted' = Append(submitted, params)
    /\ \/ /\ Return(call.caller, call.side, Some([orderId |-> 1]), <<"Success">>)
          /\ buys' = buys + (IF call.side = "BUY" THEN 1 ELSE 0)
          /\ sells' = sells + (IF call.side = "SELL" THEN 1 ELSE 0)
          /\ failedSubmits' = 0
       \/ /\ \E f \in Failures : Raise(call.caller, call.side, f, <<>>)
          /\ failedSubmits' = failedSubmits + 1
          /\ UNCHANGED <<buys, sells>>
    /\ UNCHANGED <<qty_precision, price_precision, min_notional,
                   buy_threshold, sell_threshold, quantity, order_type, price,
                   call, adjusted_qty, current_price, params, ticks, setupOutcome,
                   interrupted, tickStart>>

----------------------------------------------------------------------------
(* BasicBot.get_current_price and BasicBot.trading_bot *)

\* line 136: the poll at the top of the loop; a failure propagates (line 64)
\* and no handler of trading_bot catches it
GetCurrentPrice ==
    /\ pc = "poll"
    /\ ticks < MaxTicks
    /\ ticks' = ticks + 1
    /\ tickStart' = in_position
    /\ submitted' = <<>>
    /\ call' = NoCall
    /\ order' = None
    /\ \/ \E p \in MarketPrices :
            /\ price' = p
            /\ pc' = "decide"
            /\ tickLog' = <<>>
            /\ UNCHANGED stopReason
       \/ \E f \in Failures :
            /\ pc' = "crashed"
            /\ stopReason' = "PriceFetchFailed"
            /\ tickLog' = FetchErrorLog(f)
            /\ UNCHANGED price
    /\ UNCHANGED <<qty_precision, price_precision, min_notional,
                   buy_threshold, sell_threshold, quantity, order_type,
                   in_position, adjusted_qty, current_price, params, setupOutcome,
                   interrupted, buys, sells, failedSubmits>>

\* the thresholds compared strictly
BuyConditionStrict == ~in_position /\ price < buy_threshold
\* the sell branch not guarded by the position
SellConditionUnguarded == price >= sell_threshold

\* a cap on the retries of a failed submission
BuyConditionCapped == ~in_position /\ price <= buy_threshold /\ failedSubmits < 1
\* the buy branch not guarded by the position
BuyConditionUnguarded == price <= buy_threshold

\* line 140 and line 147
BuyCondition == ~in_position /\ price <= buy_threshold
SellCondition == in_position /\ price >= sell_threshold

\* the threshold passed as the price whatever the order type
LimitPriceArgAlways(threshold) == Some(threshold)

\* lines 142 and 149
LimitPriceArg(threshold) == IF order_type = "LIMIT" THEN Some(threshold) ELSE None

\* lines 140-152, up to the first call of the exchange
Decide ==
    /\ pc = "decide"
    /\ IF BuyCondition
       THEN EnterPlaceOrder("trading_bot", "BUY", quantity, order_type,
                            LimitPriceArg(buy_threshold))
       ELSE IF SellCondition
       THEN EnterPlaceOrder("trading_bot", "SELL", quantity, order_type,
                            LimitPriceArg(sell_threshold))
       ELSE /\ pc' = "sleep"
            /\ UNCHANGED <<call, adjusted_qty, order, in_position, tickLog, stopReason>>
    /\ UNCHANGED <<qty_precision, price_precision, min_notional,
                   buy_threshold, sell_threshold, quantity, order_type, price,
                   current_price, params, ticks, setupOutcome,
                   interrupted, buys, sells, failedSubmits, tickStart, submitted>>

\* setup_symbol_info called again inside the loop, before the next poll
SleepWithSetup ==
    /\ pc = "sleep"
    /\ \E info \in ExchangeInfos : SetupReply(info, "poll")
    /\ UNCHANGED <<buy_threshold, sell_threshold, quantity, order_type,
                   in_position, price, call, adjusted_qty, current_price, params,
                   order, ticks, interrupted, buys, sells, failedSubmits,
                   tickStart, tickLog, submitted>>

\* line 154
Sleep ==
    /\ pc = "sleep"
    /\ pc' = "poll"
    /\ UNCHANGED <<qty_precision, price_precision, min_notional,
                   buy_threshold, sell_threshold, quantity, order_type,
                   in_position, price, call, adjusted_qty, current_price, params,
                   order, stopReason, ticks, setupOutcome,
                   interrupted, buys, sells, failedSubmits, tickStart, tickLog, submitted>>

LoopPcs == {"poll", "decide", "fetch_price", "submit", "sleep"}

\* lines 156-157: KeyboardInterrupt inside the try block of trading_bot; raised
\* inside place_order it first meets the handlers of place_order. An interrupt
\* during the submit call may come after the exchange received the request.
Interrupt ==
    /\ pc \in LoopPcs
    /\ ~interrupted
    /\ interrupted' = TRUE
    /\ IF pc \in {"fetch_price", "submit"}
       THEN Raise(call.caller, call.side, "KeyboardInterrupt", <<>>)
       ELSE /\ pc' = "stopped"
            /\ stopReason' = "Interrupt"
            /\ UNCHANGED <<order, tickLog, in_position>>
    /\ IF pc = "submit"
       THEN \E reached \in BOOLEAN :
                submitted' = IF reached THEN Append(submitted, params) ELSE submitted
       ELSE UNCHANGED submitted
    /\ UNCHANGED <<qty_precision, price_precision, min_notional,
                   buy_threshold, sell_threshold, quantity, order_type,
                   price, call, adjusted_qty, current_price, params,
                   ticks, setupOutcome, buys, sells, failedSubmits, tickStart>>

----------------------------------------------------------------------------
(* The run of trading_bot *)

Init ==
    /\ qty_precision = DefaultQtyPrecision
    /\ price_precision = DefaultPricePrecision
    /\ min_notional = DefaultMinNotional
    /\ buy_threshold \in BuyThresholds
    /\ sell_threshold \in SellThresholds
    /\ quantity \in Quantities
    /\ order_type \in OrderTypes
    /\ in_position = FALSE
    /\ price = 0
    /\ call = NoCall
    /\ adjusted_qty = 0
    /\ current_price = 0
    /\ params = [symbol |-> Symbol]
    /\ order = None
    /\ pc = "setup"
    /\ stopReason = "NONE"
    /\ ticks = 0
    /\ setupOutcome = "NONE"
    /\ interrupted = FALSE
    /\ buys = 0
    /\ sells = 0
    /\ failedSubmits = 0
    /\ tickStart = FALSE
    /\ tickLog = <<>>
    /\ submitted = <<>>

Next ==
    \/ SetupSymbolInfo
    \/ GetCurrentPrice
    \/ Decide
    \/ FetchOrderPrice
    \/ SubmitOrder
    \/ Sleep
    \/ Interrupt

Spec == Init /\ [][Next]_vars

----------------------------------------------------------------------------
(* place_order and setup_symbol_info called directly, with any arguments *)

\* bot.setup_symbol_info(symbol)
DirectSetup ==
    /\ pc = "idle"
    /\ setupOutcome = "NONE"
    /\ call = NoCall
    /\ \/ \E info \in ExchangeInfos : SetupReply(info, "idle")
       \/ \E f \in Failures : SetupFailure(f, "idle")
    /\ UNCHANGED <<buy_threshold, sell_threshold, quantity, order_type, in_position,
                   price, call, adjusted_qty, current_price, params, order, ticks,
                   interrupted, buys, sells, failedSubmits,
                   tickStart, tickLog, submitted>>

\* bot.place_order(symbol, side, quantity, order_type, price)
DirectCall ==
    /\ pc = "idle"
    /\ call = NoCall
    /\ \E side \in Sides, qty \in Quantities, type \in OrderTypes, p \in PriceArgs :
            EnterPlaceOrder("direct", side, qty, type, p)
    /\ UNCHANGED <<qty_precision, price_precision, min_notional,
                   buy_threshold, sell_threshold, quantity, order_type, price,
                   current_price, params, ticks, setupOutcome,
                   interrupted, buys, sells, failedSubmits, tickStart, submitted>>

InitPO ==
    /\ qty_precision = DefaultQtyPrecision
    /\ price_precision = DefaultPricePrecision
    /\ min_notional = DefaultMinNotional
    /\ buy_threshold = 0
    /\ sell_threshold = 0
    /\ quantity = 0
    /\ order_type = "MARKET"
    /\ in_position = FALSE
    /\ price = 0
    /\ call = NoCall
    /\ adjusted_qty = 0
    /\ current_price = 0
    /\ params = [symbol |-> Symbol]
    /\ order = None
    /\ pc = "idle"
    /\ stopReason = "NONE"
    /\ ticks = 0
    /\ setupOutcome = "NONE"
    /\ interrupted = FALSE
    /\ buys = 0
    /\ sells = 0
    /\ failedSubmits = 0
    /\ tickStart = FALSE
    /\ tickLog = <<>>
    /\ submitted = <<>>

NextPO ==
    \/ DirectSetup
    \/ DirectCall
    \/ FetchOrderPrice
    \/ SubmitOrder

SpecPO == InitPO /\ [][NextPO]_vars

----------------------------------------------------------------------------
(* Properties *)

Logged(m) == \E i \in DOMAIN tickLog : tickLog[i] = m
LastLog == IF tickLog = <<>> THEN "NONE" ELSE tickLog[Len(tickLog)]
Rejections == {"ZeroQuantity", "BelowMinNotional", "MissingLimitPrice"}

\* C1: in_position changes only in the step in which a submission succeeds:
\* it becomes TRUE only when the exchange accepted a BUY, FALSE only when it
\* accepted a SELL; a rejection or a failed submission leaves it as it was at
\* the start of the tick.
C1_PositionOnlyOnSuccess ==
    [][ /\ in_position' # in_position =>
              /\ pc = "submit"
              /\ submitted' = Append(submitted, params)
              /\ order' # None
              /\ LastLog' = "Success"
              /\ in_position' = (call.side = "BUY")
        /\ (pc' = "sleep" /\ pc # "sleep" /\ order' = None) =>
              in_position' = in_position /\ in_position' = tickStart'
      ]_vars

\* a SELL reached the exchange and failed: the position is still held
C1_Witness ==
    /\ pc = "sleep"
    /\ tickStart /\ in_position
    /\ call.side = "SELL"
    /\ Len(submitted) = 1
    /\ order = None
    /\ LastLog \in {"ApiError", "GeneralError"}

\* the price the notional is to be taken at: the limit price of a LIMIT
\* order, the market price fetched by place_order otherwise
EffectivePrice ==
    IF call.order_type = "LIMIT" THEN call.price[1] ELSE current_price

\* C2: every order request handed to the exchange has a rounded quantity > 0
\* and a notional, rounded quantity times the effective price, of at least
\* min_notional, for every combination of the arguments of place_order.
C2_SubmittedOrdersValid ==
    pc = "submit" =>
        /\ params.quantity > 0
        /\ params.quantity * EffectivePrice >= min_notional * NotionalScale

\* the order of this tick passed every check of place_order
ValidationPassed == Logged("PlacingOrder")
\* the exchange received exactly one request in this tick, of side `side`
SubmittedOnce(side) == Len(submitted) = 1 /\ submitted[1].side = side

\* C3: at the end of a tick that began FLAT with the observed price <=
\* buy_threshold, a BUY was built, it was submitted if it passed validation,
\* and the state is LONG if the submission succeeded; likewise SELL and FLAT
\* for a tick that began LONG with the observed price >= sell_threshold.
C3_ThresholdTriggersOrder ==
    pc = "sleep" =>
        /\ (~tickStart /\ price <= buy_threshold) =>
              /\ call.side = "BUY"
              /\ ValidationPassed => SubmittedOnce("BUY")
              /\ order # None => in_position
        /\ (tickStart /\ price >= sell_threshold) =>
              /\ call.side = "SELL"
              /\ ValidationPassed => SubmittedOnce("SELL")
              /\ order # None => ~in_position

\* a BUY triggered exactly at the threshold was accepted: the state is LONG
C3_Witness ==
    /\ pc = "sleep"
    /\ ~tickStart /\ price = buy_threshold
    /\ SubmittedOnce("BUY")
    /\ order # None
    /\ in_position

\* a tick in which neither threshold condition holds
NoTrigger ==
    /\ ~(~tickStart /\ price <= buy_threshold)
    /\ ~(tickStart /\ price >= sell_threshold)

\* C4: a BUY is attempted only in a tick that began FLAT with price <=
\* buy_threshold, a SELL only in a tick that began LONG with price >=
\* sell_threshold; when neither holds the tick builds and submits nothing,
\* leaves in_position unchanged and goes on to the sleep and the next poll.
C4_OrdersOnlyOnTrigger ==
    /\ [](/\ call.side = "BUY" => ~tickStart /\ price <= buy_threshold
          /\ call.side = "SELL" => tickStart /\ price >= sell_threshold
          /\ (pc \in {"decide", "sleep"} /\ NoTrigger) =>
                /\ call = NoCall
                /\ submitted = <<>>
                /\ tickLog = <<>>
                /\ in_position = tickStart)
    /\ [][ /\ (pc = "decide" /\ NoTrigger /\ pc' # "stopped") =>
                pc' = "sleep" /\ in_position' = in_position
           /\ (pc = "sleep" /\ pc' # "stopped") => pc' = "poll"
         ]_vars

\* a tick that began LONG below the sell threshold: nothing was attempted
C4_Witness ==
    /\ pc = "sleep"
    /\ tickStart /\ in_position
    /\ price < sell_threshold
    /\ call = NoCall
    /\ submitted = <<>>

\* a step in which a price fetch failed: the poll of the loop ended neither
\* with a price nor by an interrupt, or place_order logged an error while it
\* was fetching the price
FetchFailedStep ==
    \/ pc = "poll" /\ pc' \notin {"poll", "decide", "stopped"}
    \/ pc = "fetch_price" /\ LastLog' \in {"ApiError", "GeneralError"}

\* C5: whenever a price fetch fails, at the top of a tick or while an order is
\* built, the failure propagates and the loop stops: no later poll, no later
\* submission.
C5_PriceFetchFailureStopsLoop ==
    [][FetchFailedStep => pc' = "crashed" /\ stopReason' = "PriceFetchFailed"]_vars

BaseFields == {"symbol", "side", "type", "quantity"}
DigitChars == {DigitChar(d) : d \in 0..9}
DigitVal(c) == CHOOSE d \in 0..9 : DigitChar(d) = c

\* the number a string of digits and "." denotes, the point dropped
RECURSIVE StrValue(_)
StrValue(str) ==
    IF str = <<>> THEN 0
    ELSE LET front == SubSeq(str, 1, Len(str) - 1)
             c == str[Len(str)]
         IN  IF c = "." THEN StrValue(front) ELSE 10 * StrValue(front) + DigitVal(c)

\* str is a fixed-point numeral with exactly `digits` digits after the point
\* (and no point when digits = 0)
IsFixedPoint(str, digits) ==
    /\ Len(str) >= digits + (IF digits = 0 THEN 1 ELSE 2)
    /\ \A i \in DOMAIN str :
          IF digits > 0 /\ i = Len(str) - digits THEN str[i] = "."
          ELSE str[i] \in DigitChars

\* str, with `digits` decimals, is the nearest numeral to the price p
DenotesPrice(str, digits, p) ==
    IF digits >= PriceDigits
    THEN StrValue(str) = p * Pow10(digits - PriceDigits)
    ELSE LET m == Pow10(PriceDigits - digits)
             d == StrValue(str) * m - p
         IN  2 * d <= m /\ 2 * d >= -m

OrderFieldsOK(o, p) ==
    IF o.type = "LIMIT"
    THEN /\ DOMAIN o = BaseFields \cup {"price", "timeInForce"}
         /\ o.timeInForce = "GTC"
         /\ IsFixedPoint(o.price, price_precision)
         /\ p # None /\ DenotesPrice(o.price, price_precision, p[1])
    ELSE DOMAIN o = BaseFields

\* C6: every submitted LIMIT order carries its price formatted to
\* price_precision decimal digits and timeInForce = GTC; every submitted
\* MARKET order carries neither field, whatever price argument was passed.
C6_OrderFields ==
    /\ pc = "submit" => OrderFieldsOK(params, call.price)
    /\ \A i \in DOMAIN submitted : OrderFieldsOK(submitted[i], call.price)

\* a LIMIT order at 60.25 sent with one decimal
C6_Witness ==
    /\ Len(submitted) = 1
    /\ submitted[1].type = "LIMIT"
    /\ call.price = Some(6025)
    /\ price_precision = 1
    /\ submitted[1].price = <<"6", "0", ".", "2">>

\* a direct call of place_order with LIMIT and no price has returned
LimitWithoutPrice == call.order_type = "LIMIT" /\ call.price = None
Returned == call.caller = "direct" /\ pc = "idle"
FetchErrorLogs == {<<"PriceFetchError", "ApiError">>, <<"GeneralError">>}

\* C7 (as claimed): a LIMIT order without a price is always rejected with the
\* reason MissingLimitPrice, and the submit call is not invoked.
C7_AlwaysMissingLimitPrice ==
    (LimitWithoutPrice /\ Returned) =>
        tickLog = <<"MissingLimitPrice">> /\ submitted = <<>>

\* C7 (amended): a LIMIT order without a price never reaches the exchange and
\* place_order returns None; the reason logged is that of the first check that
\* fails: ZeroQuantity when the rounded quantity is <= 0, else the error of a
\* failed price fetch, else BelowMinNotional when rounded quantity times market
\* price is below min_notional, and MissingLimitPrice otherwise.
C7_LimitWithoutPriceNotSubmitted ==
    LimitWithoutPrice =>
        /\ pc # "submit"
        /\ submitted = <<>>
        /\ Returned =>
              /\ order = None
              /\ IF adjusted_qty <= 0 THEN tickLog = <<"ZeroQuantity">>
                 ELSE IF tickLog \in FetchErrorLogs THEN TRUE
                 ELSE IF adjusted_qty * current_price < min_notional * NotionalScale
                 THEN tickLog = <<"BelowMinNotional">>
                 ELSE tickLog = <<"MissingLimitPrice">>

\* the rejection the claim names: quantity and notional pass, the price is missing
C7_Witness ==
    /\ LimitWithoutPrice /\ Returned
    /\ adjusted_qty > 0
    /\ adjusted_qty * current_price >= min_notional * NotionalScale
    /\ tickLog = <<"MissingLimitPrice">>
    /\ submitted = <<>>

Rejected == LastLog \in Rejections
Terminated == pc \in {"stopped", "crashed"}

\* C8: when validation rejects the order of a tick, nothing reaches the
\* exchange in that tick and the loop goes on: it sleeps and performs the next
\* poll (unless the user interrupts it).
C8_RejectionKeepsLoopRunning ==
    /\ [](Rejected =>
             /\ submitted = <<>>
             /\ order = None
             /\ in_position = tickStart
             /\ \/ pc \in {"sleep", "poll"}
                \/ pc = "stopped" /\ stopReason = "Interrupt")
    /\ [][ /\ (Rejected /\ pc = "sleep" /\ pc' # "stopped") => pc' = "poll"
           /\ (Rejected /\ pc = "poll" /\ pc' # "stopped") => ticks' = ticks + 1
         ]_vars

\* 0.0012 rounded to 0.001 was below the minimum notional; the loop is at its
\* next poll
C8_Witness ==
    /\ pc = "poll"
    /\ ticks < MaxTicks
    /\ quantity = 12 /\ adjusted_qty = 10
    /\ min_notional = DefaultMinNotional
    /\ tickLog = <<"BelowMinNotional">>
    /\ submitted = <<>>

\* C9: if the metadata query fails or the symbol is absent from the reply, the
\* rules are the defaults after setup_symbol_info and the run is not aborted.
C9_MetadataFailureKeepsDefaults ==
    setupOutcome \in {"absent", "BinanceAPIException", "Exception"} =>
        /\ CurrentRules = DefaultRules
        /\ stopReason # "MetadataFetchFailed"

\* C10: the loop ends only by a failed poll at the top of a tick or by an
\* interrupt; no rejection and no error raised while an order is placed ends it.
C10_LoopStopsOnlyOnFetchOrInterrupt ==
    /\ []((Terminated /\ stopReason # "MetadataFetchFailed") =>
             /\ stopReason \in {"PriceFetchFailed", "Interrupt"}
             /\ stopReason = "PriceFetchFailed" => call = NoCall /\ submitted = <<>>
             /\ LastLog \in Rejections \cup {"ApiError", "GeneralError"} =>
                    stopReason = "Interrupt")
    /\ [][ (pc \in {"decide", "fetch_price", "submit"} /\ pc' \in {"stopped", "crashed"})
               => pc' = "stopped" /\ stopReason' = "Interrupt"
         ]_vars

\* a submission failed with an error that is no API error; the loop is at its
\* next poll
C10_Witness ==
    /\ pc = "poll"
    /\ ticks < MaxTicks
    /\ Len(submitted) = 1
    /\ order = None
    /\ LastLog = "GeneralError"

SubmitReturns == {"Success", "ApiError", "GeneralError"}

\* C11: the exchange receives at most one request per tick, of the side the
\* tick decided on: never a BUY and a SELL in one tick, also when the BUY
\* succeeds at a price that is >= sell_threshold too; and the next tick
\* begins only after the submit call of the tick has returned.
C11_OneSubmissionPerTick ==
    /\ [](/\ Len(submitted) <= 1
          /\ \A i \in DOMAIN submitted : submitted[i].side = call.side)
    /\ [][ ticks' # ticks =>
              /\ pc = "poll"
              /\ submitted # <<>> => LastLog \in SubmitReturns
         ]_vars

\* a BUY accepted at a price that also meets the sell threshold: the tick
\* ends LONG with that one request
C11_Witness ==
    /\ pc = "sleep"
    /\ ~tickStart /\ in_position
    /\ price <= buy_threshold /\ price >= sell_threshold
    /\ Len(submitted) = 1
    /\ submitted[1].side = "BUY"
    /\ LastLog = "Success"

\* C12: once setup_symbol_info has returned, no step of the loop and no
\* place_order call changes qty_precision, price_precision or min_notional.
C12_RulesFrozenAfterSetup ==
    [][pc # "setup" => UNCHANGED <<qty_precision, price_precision, min_notional>>]_vars

\* rules taken from the exchange, still in force in a later tick in which an
\* order was validated against them
C12_Witness ==
    /\ setupOutcome = "found"
    /\ CurrentRules = Rules(1, 1, 100)
    /\ ticks >= 2
    /\ pc = "sleep"
    /\ Len(submitted) = 1

\* C13: an interrupt can be delivered at every step of the loop (poll,
\* decision, price fetch and validation inside place_order, submit call,
\* sleep); it is not swallowed by the handlers of place_order: the loop ends
\* in the KeyboardInterrupt handler of trading_bot, and nothing is polled or
\* submitted afterwards.
C13_InterruptStopsLoop ==
    /\ []((pc \in LoopPcs /\ ~interrupted) => ENABLED Interrupt)
    /\ [](interrupted => pc = "stopped" /\ stopReason = "Interrupt")
    /\ [][interrupted =>
              /\ submitted' = submitted
              /\ ticks' = ticks
              /\ pc' = pc
              /\ in_position' = in_position]_vars

\* the interrupt came during the submit call of a BUY: the loop is stopped,
\* the position was not taken
C13_Witness ==
    /\ interrupted
    /\ pc = "stopped"
    /\ call.side = "BUY"
    /\ LastLog = "PlacingOrder"
    /\ order = None
    /\ ~in_position

----------------------------------------------------------------------------
(* round(quantity, qty_precision) on its own, over a range of inputs *)

\* raw quantities -MaxRaw..MaxRaw (in units of 10^-QtyDigits) and precisions
\* 0..MaxPrecision
MaxRaw == 120
MaxPrecision == 5

\* the range, and quantities at and around the ties of the coarser precisions
RoundInputs ==
    (-MaxRaw..MaxRaw) \cup {150, 250, 350, 499, 500, 501, 1500, 2500, 4999, 5000,
                            5001, 14999, 15000, 15001, 25000, -150, -500, -1500,
                            -5000, -15000}

InitRound ==
    /\ qty_precision \in 0..MaxPrecision
    /\ price_precision = DefaultPricePrecision
    /\ min_notional = DefaultMinNotional
    /\ buy_threshold = 0
    /\ sell_threshold = 0
    /\ quantity \in RoundInputs
    /\ order_type = "MARKET"
    /\ in_position = FALSE
    /\ price = 0
    /\ call = NoCall
    /\ adjusted_qty = 0
    /\ current_price = 0
    /\ params = [symbol |-> Symbol]
    /\ order = None
    /\ pc = "round"
    /\ stopReason = "NONE"
    /\ ticks = 0
    /\ setupOutcome = "NONE"
    /\ interrupted = FALSE
    /\ buys = 0
    /\ sells = 0
    /\ failedSubmits = 0
    /\ tickStart = FALSE
    /\ tickLog = <<>>
    /\ submitted = <<>>

\* line 81
RoundQuantity ==
    /\ pc = "round"
    /\ adjusted_qty' = Round(quantity, qty_precision)
    /\ pc' = "rounded"
    /\ UNCHANGED <<qty_precision, price_precision, min_notional,
                   buy_threshold, sell_threshold, quantity, order_type,
                   in_position, price, call, current_price, params, order,
                   stopReason, ticks, setupOutcome, interrupted, buys, sells,
                   failedSubmits, tickStart, tickLog, submitted>>

NextRound == RoundQuantity

SpecRound == InitRound /\ [][NextRound]_vars

\* C14: rounding to the quantity precision is idempotent: the rounded
\* quantity, rounded again with the same precision, is itself.
C14_RoundIdempotent ==
    pc = "rounded" => Round(adjusted_qty, qty_precision) = adjusted_qty

\* 0.0015 rounded to three decimals is 0.002, and stays so
C14_Witness ==
    /\ pc = "rounded"
    /\ quantity = 15
    /\ qty_precision = 3
    /\ adjusted_qty = 20
    /\ Round(adjusted_qty, qty_precision) = 20

\* C15: after any number of failed submissions the transition is tried again
\* in every tick in which its condition holds: a BUY while FLAT with price <=
\* buy_threshold, a SELL while LONG with price >= sell_threshold; place_order
\* is called with the same quantity, and no count of failures stops it.
C15_RetryEveryTick ==
    [][ (pc = "decide" /\ failedSubmits >= 1 /\ ~interrupted') =>
           /\ (~in_position /\ price <= buy_threshold) =>
                  /\ call'.side = "BUY"
                  /\ call'.quantity = quantity
                  /\ pc' = "fetch_price"
           /\ (in_position /\ price >= sell_threshold) =>
                  /\ call'.side = "SELL"
                  /\ call'.quantity = quantity
                  /\ pc' = "fetch_price"
      ]_vars

\* every tick of the run tried the BUY again and every submission failed
C15_Witness ==
    /\ ticks = MaxTicks
    /\ failedSubmits = MaxTicks
    /\ pc = "sleep"
    /\ ~in_position
    /\ call.side = "BUY"
    /\ Len(submitted) = 1

\* C16: the accepted submissions alternate BUY, SELL, BUY, ... beginning with
\* a BUY: accepted BUYs minus accepted SELLs is 0 or 1, and is 1 exactly when
\* in_position is true.
C16_BuysAndSellsAlternate ==
    /\ buys - sells \in {0, 1}
    /\ (buys - sells = 1) <=> in_position

\* BUY, SELL and BUY again were accepted
C16_Witness ==
    /\ buys = 2
    /\ sells = 1
    /\ in_position
    /\ pc = "sleep"

\* C17: when the configured quantity rounds to <= 0 at the quantity precision
\* in force, no tick submits anything, in_position stays false, the loop
\* keeps polling, and every place_order call returns with ZeroQuantity before
\* it fetches a price.
C17_ZeroQuantityNeverTrades ==
    (pc # "setup" /\ Round(quantity, qty_precision) <= 0) =>
        /\ submitted = <<>>
        /\ buys = 0 /\ sells = 0
        /\ ~in_position
        /\ pc \notin {"fetch_price", "submit"}
        /\ current_price = 0
        /\ call # NoCall => call.side = "BUY" /\ tickLog = <<"ZeroQuantity">>
        /\ pc = "crashed" => ticks = 0 \/ stopReason = "PriceFetchFailed"

\* 0.0012 at one decimal is 0: the last tick of the run was rejected like the
\* others
C17_Witness ==
    /\ quantity = 12
    /\ qty_precision = 1
    /\ ticks = MaxTicks
    /\ pc = "sleep"
    /\ tickLog = <<"ZeroQuantity">>
    /\ ~in_position
    /\ submitted = <<>>

ThresholdOf(side) == IF side = "BUY" THEN buy_threshold ELSE sell_threshold

\* C18: a LIMIT order of the loop has the threshold of its side as its limit
\* price; for MARKET the loop passes no price, so the notional check is made
\* with the market price place_order fetched.
C18_LoopOrderPrices ==
    call.caller = "trading_bot" =>
        /\ call.order_type = order_type
        /\ order_type = "LIMIT" =>
              /\ call.price = Some(ThresholdOf(call.side))
              /\ \A i \in DOMAIN submitted :
                    /\ submitted[i].type = "LIMIT"
                    /\ submitted[i].price =
                           FormatPrice(ThresholdOf(call.side), price_precision)
        /\ order_type = "MARKET" =>
              /\ call.price = None
              /\ \A i \in DOMAIN submitted : DOMAIN submitted[i] = BaseFields
              /\ ValidationPassed =>
                    adjusted_qty * current_price >= min_notional * NotionalScale
              /\ LastLog = "BelowMinNotional" =>
                    adjusted_qty * current_price < min_notional * NotionalScale

\* a MARKET BUY passed the notional check at the price place_order fetched
\* (0.1 * 60.25) although the price the loop observed (40.00) would fail it
C18_Witness ==
    /\ order_type = "MARKET"
    /\ pc = "sleep"
    /\ Len(submitted) = 1
    /\ call.side = "BUY"
    /\ adjusted_qty = 1000
    /\ min_notional = DefaultMinNotional
    /\ price = 4000
    /\ current_price = 6025

====
